---- MODULE Spec2Model ----
(***************************************************************************)
(* A model of tokio-rev-lines (src/src/lib.rs): RevLines, an async stream  *)
(* that yields the lines of a seekable reader last line first.             *)
(*                                                                         *)
(* The reader is a byte sequence `stream` with an offset `stream_pos`; the *)
(* scanner keeps `reader_pos` and `buf_size`.  One action is one step of   *)
(* the code between two of its await points: the construction's read of    *)
(* the stream's end, its two trims, and one pass of next_line's loop.      *)
(***************************************************************************)
EXTENDS Integers, Sequences, FiniteSets, TLC

\* ------------------------------------------------------------------ bounds

\* The longest stream the model draws.
MaxLen == 4

\* The largest chunk size (`cap`) the model draws; every size >= the stream's
\* length reads the whole stream in one chunk, as the default of 4096 does.
MaxBuf == 5

\* The number of I/O failures (seeks or reads of the reader that fail) one
\* execution may see.
MaxFaults == 2

\* ------------------------------------------------------- program constants

LF_BYTE == 10

CR_BYTE == 13

\* The bytes streams are made of: the two terminator bytes, two ASCII letters
\* ("A", "B"), and the two bytes of a two-byte UTF-8 character (0xC3 0xA9).
Bytes == {LF_BYTE, CR_BYTE, 65, 66, 195, 169}

\* The bytes of the streams of the fair executions: the two terminator bytes
\* and one byte of content, which is all the scan's positions depend on.
ScanBytes == {LF_BYTE, CR_BYTE, 65}

\* The bytes of the streams of the executions with I/O failures: the line
\* feed, an ASCII letter and a byte that is not valid UTF-8 on its own.
IoBytes == {LF_BYTE, 65, 169}

\* ------------------------------------------------------------ pure helpers

Min(a, b) == IF a < b THEN a ELSE b

\* Vec::reverse
Reverse(s) == [i \in 1..Len(s) |-> s[Len(s) + 1 - i]]

\* A byte index of the code (0-based) into a TLA+ sequence (1-based).
At(buf, idx) == buf[idx + 1]

\* The bytes read_exact gets when the reader stands at offset `from`.
ReadExact(S, from, size) == SubSeq(S, from + 1, from + size)

\* ReaderAfterRead without the second seek back.
ReaderAfterReadNoSeekBack(pos, size) == (pos - size) + size

\* read_to_buffer, lines 115-117: the reader's offset once the chunk is read:
\* sought back by size, advanced by the read, sought back by size again.
ReaderAfterRead(pos, size) == ((pos - size) + size) - size

\* String::from_utf8 on the byte values the model draws: ASCII bytes are one
\* character each, 0xC2..0xDF starts a two-byte character whose second byte is
\* a continuation byte 0x80..0xBF; a continuation byte alone is invalid.
RECURSIVE Utf8From(_, _)
Utf8From(bytes, i) ==
    IF i > Len(bytes) THEN TRUE
    ELSE IF bytes[i] < 128 THEN Utf8From(bytes, i + 1)
    ELSE IF bytes[i] >= 194 /\ bytes[i] <= 223
         THEN /\ i + 1 <= Len(bytes)
              /\ bytes[i + 1] >= 128
              /\ bytes[i + 1] <= 191
              /\ Utf8From(bytes, i + 2)
    ELSE FALSE

ValidUtf8(bytes) == Utf8From(bytes, 1)

\* The items of the produced sequence: Result<String, Error>.
OkItem(bytes) == [kind |-> "Ok", bytes |-> bytes]

NotUtf8Item(bytes) == [kind |-> "NotUtf8", bytes |-> bytes]

IoItem == [kind |-> "Io", bytes |-> <<>>]

\* Finalize converting lossily: the bytes that are not ASCII are skipped and
\* the line is returned as text.
FinalizeLossy(result) ==
    OkItem(SelectSeq(Reverse(result), LAMBDA b : b < 128))

\* next_line's end: reverse the accumulator and convert it to a String.
Finalize(result) ==
    LET bytes == Reverse(result)
    IN  IF ValidUtf8(bytes) THEN OkItem(bytes) ELSE NotUtf8Item(bytes)

\* with_capacity: "Read at most 2 bytes".
EndSize(reader_size) == Min(reader_size, 2)

\* TrimFirstMoves with the one-byte test taken for every stream shorter than
\* two bytes, the empty one included.
TrimFirstMovesOnEmpty(end_size, end_buf) ==
    \/ end_size = 0
    \/ end_size = 1 /\ At(end_buf, 0) # LF_BYTE
    \/ end_size = 2 /\ At(end_buf, 0) # CR_BYTE

\* with_capacity's first trim: whether it moves the reader forward by one.
TrimFirstMoves(end_size, end_buf) ==
    \/ end_size = 1 /\ At(end_buf, 0) # LF_BYTE
    \/ end_size = 2 /\ At(end_buf, 0) # CR_BYTE

\* with_capacity's second trim (two bytes read): whether it moves again.
TrimSecondMoves(end_size, end_buf) ==
    end_size = 2 /\ At(end_buf, 1) # LF_BYTE

\* next_line: the loop's exit test.
AtStart(pos) == pos < 1

\* HasPending with `>= 0` for `> 0`.
HasPendingAlways(result) == Len(result) >= 0

\* next_line: whether a line is pending when the start is reached.
HasPending(result) == Len(result) > 0

\* next_line: the size of the next chunk.
ChunkSize(bs, pos) == Min(bs, pos)

\* LineOffset moving the reader past the line feed instead of onto it.
LineOffsetPastLF(buf, idx) == idx + 1

\* LineOffset merging the pair from index 1 on (`idx > 0` for `idx > 1`).
LineOffsetMergeAt1(buf, idx) ==
    IF idx > 0 /\ At(buf, idx - 1) = CR_BYTE THEN idx - 1 ELSE idx

\* next_line: the offset from the chunk's start the reader is moved to when
\* the line feed is found at index idx of the chunk.
LineOffset(buf, idx) ==
    IF idx > 1 /\ At(buf, idx - 1) = CR_BYTE THEN idx - 1 ELSE idx

\* next_line: the scan of one chunk from its last byte to its first, pushing
\* the bytes on the accumulator until a line feed is found.
RECURSIVE ScanFrom(_, _, _)
ScanFrom(buf, idx, acc) ==
    IF idx < 0 THEN [found |-> FALSE, offset |-> 0, result |-> acc]
    ELSE IF At(buf, idx) = LF_BYTE
         THEN [found |-> TRUE, offset |-> LineOffset(buf, idx), result |-> acc]
    ELSE ScanFrom(buf, idx - 1, Append(acc, At(buf, idx)))

ScanChunk(buf, acc) == ScanFrom(buf, Len(buf) - 1, acc)

\* with_capacity as a function of the stream: reader_pos once the stream's
\* end has been read and trimmed.
TrimmedPos(S) ==
    LET end_size == EndSize(Len(S))
        buf == ReadExact(S, Len(S) - end_size, end_size)
    IN  Len(S) - end_size
            + (IF TrimFirstMoves(end_size, buf) THEN 1 ELSE 0)
            + (IF TrimSecondMoves(end_size, buf) THEN 1 ELSE 0)

\* next_line as a function of the stream, the chunk size and reader_pos (no
\* I/O failure): the item it returns, if any, and reader_pos afterwards.
RECURSIVE NextLineFrom(_, _, _, _)
NextLineFrom(S, bs, pos, acc) ==
    IF AtStart(pos)
    THEN IF HasPending(acc)
         THEN [some |-> TRUE, item |-> Finalize(acc), pos |-> pos]
         ELSE [some |-> FALSE, item |-> OkItem(<<>>), pos |-> pos]
    ELSE LET size == ChunkSize(bs, pos)
             sc == ScanChunk(ReadExact(S, pos - size, size), acc)
         IN  IF sc.found
             THEN [some |-> TRUE, item |-> Finalize(sc.result),
                   pos |-> pos - size + sc.offset]
             ELSE NextLineFrom(S, bs, pos - size, sc.result)

\* stream::unfold over next_line: the items produced from reader_pos on.
RECURSIVE DrainFrom(_, _, _)
DrainFrom(S, bs, pos) ==
    LET r == NextLineFrom(S, bs, pos, <<>>)
    IN  IF r.some THEN <<r.item>> \o DrainFrom(S, bs, r.pos) ELSE <<>>

\* The whole produced sequence of a scanner built with chunk size bs.
Drain(S, bs) == DrainFrom(S, bs, TrimmedPos(S))

\* IoErrorReturn ending the sequence (`return None`) instead of returning
\* the error.
IoErrorDropped(items) == [out |-> items, pc |-> "done"]

\* next_line, lines 166 and 174: an I/O error is returned as an item, and
\* unfold keeps the scanner for the next request.
IoErrorReturn(items) == [out |-> Append(items, IoItem), pc |-> "ready"]

\* AfterItem ending the sequence after an item that is an error.
AfterItemStopOnError(item) == IF item.kind = "Ok" THEN "ready" ELSE "done"

\* The unfold closure, lines 101-106: whatever item next_line returns, a line
\* or an error, the scanner is kept and the next request runs next_line again.
AfterItem(item) == "ready"

\* ------------------------------------------------------------------- state

VARIABLES
    stream,      \* the bytes of the underlying reader
    buf_size,    \* RevLines.buf_size (cap)
    stream_pos,  \* the reader's own offset
    reader_pos,  \* RevLines.reader_pos
    end_buf,     \* with_capacity: the bytes read from the stream's end
    result,      \* next_line: the accumulator, last byte first
    out,         \* the items the stream has produced
    pc,          \* where the code stands
    faults       \* the I/O failures so far

vars == <<stream, buf_size, stream_pos, reader_pos, end_buf, result, out, pc, faults>>

StreamsOver(alphabet) == UNION {[1..n -> alphabet] : n \in 0..MaxLen}

InitOver(alphabet) ==
    /\ stream \in StreamsOver(alphabet)
    /\ buf_size \in 1..MaxBuf
    /\ stream_pos = 0
    /\ reader_pos = 0
    /\ end_buf = <<>>
    /\ result = <<>>
    /\ out = <<>>
    /\ pc = "new"
    /\ faults = 0

Init == InitOver(Bytes)

\* ------------------------------------------------------------ construction

\* with_capacity, lines 72-85: seek to the end, then read_to_buffer(end_size).
with_capacity_read ==
    /\ pc = "new"
    /\ LET reader_size == Len(stream)
           end_size == EndSize(reader_size)
       IN  /\ end_buf' = ReadExact(stream, reader_size - end_size, end_size)
           /\ stream_pos' = ReaderAfterRead(reader_size, end_size)
           /\ reader_pos' = reader_size - end_size
    /\ pc' = "trim0"
    /\ UNCHANGED <<stream, buf_size, result, out, faults>>

\* with_capacity, lines 87-95: the branch on end_size and the first
\* move_reader_position(1).
with_capacity_trim_first ==
    /\ pc = "trim0"
    /\ LET move == IF TrimFirstMoves(Len(end_buf), end_buf) THEN 1 ELSE 0
       IN  /\ stream_pos' = stream_pos + move
           /\ reader_pos' = reader_pos + move
    /\ pc' = IF Len(end_buf) = 2 THEN "trim1" ELSE "ready"
    /\ UNCHANGED <<stream, buf_size, end_buf, result, out, faults>>

\* with_capacity, lines 96-98: the second move_reader_position(1).
with_capacity_trim_second ==
    /\ pc = "trim1"
    /\ LET move == IF TrimSecondMoves(Len(end_buf), end_buf) THEN 1 ELSE 0
       IN  /\ stream_pos' = stream_pos + move
           /\ reader_pos' = reader_pos + move
    /\ pc' = "ready"
    /\ UNCHANGED <<stream, buf_size, end_buf, result, out, faults>>

\* -------------------------------------------------------------- production

\* next_line, lines 135-141 and 178-185: the start of the stream is reached;
\* a pending line is produced, else the sequence ends.
next_line_at_start ==
    /\ pc \in {"ready", "scan"}
    /\ AtStart(reader_pos)
    /\ IF HasPending(result)
       THEN /\ out' = Append(out, Finalize(result))
            /\ pc' = AfterItem(Finalize(result))
       ELSE /\ out' = out
            /\ pc' = "done"
    /\ result' = <<>>
    /\ UNCHANGED <<stream, buf_size, stream_pos, reader_pos, end_buf, faults>>

\* next_line, lines 145-171 and 178-185: one pass of the loop.  read_to_buffer
\* reads the chunk that ends at the reader's offset and leaves the reader at
\* the chunk's start; the scan either finds a line feed, moves the reader to
\* it and produces the line, or pushes the whole chunk and loops.
next_line_read_chunk ==
    /\ pc \in {"ready", "scan"}
    /\ ~AtStart(reader_pos)
    /\ LET size == ChunkSize(buf_size, reader_pos)
           from == stream_pos - size
       IN  /\ from >= 0
           /\ LET buf == ReadExact(stream, from, size)
                  sc == ScanChunk(buf, result)
              IN  IF sc.found
                  THEN /\ stream_pos' = ReaderAfterRead(stream_pos, size) + sc.offset
                       /\ reader_pos' = reader_pos - size + sc.offset
                       /\ out' = Append(out, Finalize(sc.result))
                       /\ result' = <<>>
                       /\ pc' = AfterItem(Finalize(sc.result))
                  ELSE /\ stream_pos' = ReaderAfterRead(stream_pos, size)
                       /\ reader_pos' = reader_pos - size
                       /\ out' = out
                       /\ result' = sc.result
                       /\ pc' = "scan"
    /\ UNCHANGED <<stream, buf_size, end_buf, faults>>

\* ------------------------------------------------------------ I/O failures

\* with_capacity, lines 72, 85, 89, 93, 97: a seek or read of the construction
\* fails and `?` returns the error; no stream is created.
with_capacity_io_error ==
    /\ \/ pc = "new"
       \/ pc = "trim0" /\ TrimFirstMoves(Len(end_buf), end_buf)
       \/ pc = "trim1" /\ TrimSecondMoves(Len(end_buf), end_buf)
    /\ faults < MaxFaults
    /\ faults' = faults + 1
    /\ pc' = "ctor_err"
    /\ UNCHANGED <<stream, buf_size, stream_pos, reader_pos, end_buf, result, out>>

\* read_to_buffer, line 115: the seek back by `size` fails, because the
\* reader does or because it would move before the stream's start.
read_to_buffer_seek_error ==
    /\ pc \in {"ready", "scan"}
    /\ ~AtStart(reader_pos)
    /\ faults < MaxFaults
    /\ faults' = faults + 1
    /\ out' = IoErrorReturn(out).out
    /\ pc' = IoErrorReturn(out).pc
    /\ result' = <<>>
    /\ UNCHANGED <<stream, buf_size, stream_pos, reader_pos, end_buf>>

\* read_to_buffer, line 116: read_exact fails after k of the chunk's bytes.
read_to_buffer_read_error ==
    /\ pc \in {"ready", "scan"}
    /\ ~AtStart(reader_pos)
    /\ faults < MaxFaults
    /\ LET size == ChunkSize(buf_size, reader_pos)
       IN  /\ stream_pos - size >= 0
           /\ \E k \in 0..(size - 1) : stream_pos' = stream_pos - size + k
    /\ faults' = faults + 1
    /\ out' = IoErrorReturn(out).out
    /\ pc' = IoErrorReturn(out).pc
    /\ result' = <<>>
    /\ UNCHANGED <<stream, buf_size, reader_pos, end_buf>>

\* read_to_buffer, line 117: the second seek back fails; the reader stands
\* after the chunk it has read, and reader_pos is not lowered.
read_to_buffer_seek_back_error ==
    /\ pc \in {"ready", "scan"}
    /\ ~AtStart(reader_pos)
    /\ faults < MaxFaults
    /\ stream_pos - ChunkSize(buf_size, reader_pos) >= 0
    /\ faults' = faults + 1
    /\ out' = IoErrorReturn(out).out
    /\ pc' = IoErrorReturn(out).pc
    /\ result' = <<>>
    /\ UNCHANGED <<stream, buf_size, stream_pos, reader_pos, end_buf>>

\* next_line, lines 159-166: the chunk is read and holds a line feed, and the
\* seek forward to it fails; reader_pos stays at the chunk's start.
next_line_seek_error ==
    /\ pc \in {"ready", "scan"}
    /\ ~AtStart(reader_pos)
    /\ faults < MaxFaults
    /\ LET size == ChunkSize(buf_size, reader_pos)
           from == stream_pos - size
       IN  /\ from >= 0
           /\ ScanChunk(ReadExact(stream, from, size), result).found
           /\ stream_pos' = from
           /\ reader_pos' = reader_pos - size
    /\ faults' = faults + 1
    /\ out' = IoErrorReturn(out).out
    /\ pc' = IoErrorReturn(out).pc
    /\ result' = <<>>
    /\ UNCHANGED <<stream, buf_size, end_buf>>

Next ==
    \/ with_capacity_read
    \/ with_capacity_trim_first
    \/ with_capacity_trim_second
    \/ next_line_at_start
    \/ next_line_read_chunk

Spec == Init /\ [][Next]_vars

\* The consumer keeps requesting items: every enabled step is taken.
FairSpec == InitOver(ScanBytes) /\ [][Next]_vars /\ WF_vars(Next)

\* The executions in which seeks and reads may fail.
InitIo == InitOver(IoBytes)

NextIo ==
    \/ Next
    \/ with_capacity_io_error
    \/ read_to_buffer_seek_error
    \/ read_to_buffer_read_error
    \/ read_to_buffer_seek_back_error
    \/ next_line_seek_error

SpecIo == InitIo /\ [][NextIo]_vars

\* ------------------------------------------------- reference definitions

\* The byte strings of the produced items, in production order.
Lines(items) == [i \in 1..Len(items) |-> items[i].bytes]

AllOk(items) == \A i \in 1..Len(items) : items[i].kind = "Ok"

Range(s) == {s[i] : i \in 1..Len(s)}

\* A line without the carriage return that ended it before the line feed.
StripCR(line) ==
    IF Len(line) > 0 /\ line[Len(line)] = CR_BYTE
    THEN SubSeq(line, 1, Len(line) - 1)
    ELSE line

\* The forward line split of S on \n / \r\n: every line feed ends a line, a
\* carriage return right before it belongs to the terminator, and bytes after
\* the last line feed are a last line.
RECURSIVE SplitFrom(_, _, _, _)
SplitFrom(S, i, cur, acc) ==
    IF i > Len(S) THEN (IF Len(cur) > 0 THEN Append(acc, cur) ELSE acc)
    ELSE IF S[i] = LF_BYTE THEN SplitFrom(S, i + 1, <<>>, Append(acc, StripCR(cur)))
    ELSE SplitFrom(S, i + 1, Append(cur, S[i]), acc)

ForwardLines(S) == SplitFrom(S, 1, <<>>, <<>>)

\* The lines joined with \n between them.
RECURSIVE JoinLF(_)
JoinLF(ls) ==
    IF Len(ls) = 0 THEN <<>>
    ELSE IF Len(ls) = 1 THEN ls[1]
    ELSE ls[1] \o <<LF_BYTE>> \o JoinLF(Tail(ls))

\* S with every \r\n pair replaced by \n.
RECURSIVE NormalizeFrom(_, _)
NormalizeFrom(S, i) ==
    IF i > Len(S) THEN <<>>
    ELSE IF S[i] = CR_BYTE /\ i < Len(S) /\ S[i + 1] = LF_BYTE
         THEN NormalizeFrom(S, i + 1)
    ELSE <<S[i]>> \o NormalizeFrom(S, i + 1)

Normalize(S) == NormalizeFrom(S, 1)

NoTrailingTerminator(S) == Len(S) = 0 \/ S[Len(S)] \notin {LF_BYTE, CR_BYTE}

\* Every carriage return of S is the first byte of a \r\n pair.
EveryCRPaired(S) ==
    \A i \in 1..Len(S) : S[i] = CR_BYTE => (i < Len(S) /\ S[i + 1] = LF_BYTE)

Drained == pc = "done"

\* ------------------------------------------------------------------ claims

\* C1: for a text stream with no trailing terminator bytes, whatever the chunk
\* size, the drained sequence is the forward line split of the stream on
\* \n / \r\n, last line first.
C1_ReverseOfForwardSplit ==
    (Drained /\ NoTrailingTerminator(stream) /\ ValidUtf8(stream))
        => Lines(out) = Reverse(ForwardLines(stream))

\* C2: the chunk size does not affect the output: the drained sequence of this
\* scanner is the sequence a scanner with any other chunk size produces.
C2_ChunkSizeIndependent ==
    Drained => \A b2 \in 1..MaxBuf : out = Drain(stream, b2)

\* C3: round trip: the produced lines, reversed and joined with \n, are the
\* stream's content (\r\n read as \n) up to exactly one trailing terminator.
C3_RoundTrip ==
    (Drained /\ AllOk(out))
        => LET joined == JoinLF(Reverse(Lines(out)))
           IN  Normalize(stream) \in {joined, joined \o <<LF_BYTE>>}

\* C4: a stream that is only a terminator yields exactly one line, and a stream
\* that is one line with no terminator yields exactly that line; then the
\* sequence ends.
C4_OneLineStreams ==
    Drained =>
        /\ stream \in {<<LF_BYTE>>, <<CR_BYTE, LF_BYTE>>} => Len(out) = 1
        /\ (Len(stream) > 0 /\ LF_BYTE \notin Range(stream) /\ ValidUtf8(stream))
               => out = <<OkItem(stream)>>

\* C5: every blank line of the stream is an empty item at its reverse position
\* in the drained sequence (stated for the blank lines before the stream's
\* last line, which leaves out the one a trailing terminator ends).
C5_BlankLinesPreserved ==
    Drained =>
        LET fwd == ForwardLines(stream)
        IN  \A i \in 1..(Len(fwd) - 1) :
                fwd[i] = <<>> =>
                    /\ Len(out) >= Len(fwd) + 1 - i
                    /\ out[Len(fwd) + 1 - i].bytes = <<>>

\* C6: for the empty stream the construction adjusts no position, nothing is
\* produced, and the first request ends the sequence.
C6_EmptyStream ==
    /\ [](Len(stream) = 0 =>
            /\ reader_pos = 0
            /\ stream_pos = 0
            /\ out = <<>>
            /\ pc \in {"new", "trim0", "ready", "done"})
    /\ [][(Len(stream) = 0 /\ pc = "ready") => (pc' = "done" /\ out' = <<>>)]_vars

C6_Witness == Len(stream) = 0 /\ pc = "done" /\ out = <<>>

\* C7: no produced line holds a line feed, and no produced line holds the
\* carriage return of a \r\n pair of the stream (stated for the streams whose
\* carriage returns all stand in such a pair).
C7_NoTerminatorByteInLine ==
    \A i \in 1..Len(out) :
        /\ LF_BYTE \notin Range(out[i].bytes)
        /\ EveryCRPaired(stream) => CR_BYTE \notin Range(out[i].bytes)

\* C8: with no I/O error, every step of a request that reads a chunk leaves
\* reader_pos strictly smaller, and the requests reach the end of the sequence.
C8_Terminates ==
    /\ [][(pc \in {"ready", "scan"} /\ ~AtStart(reader_pos))
            => reader_pos' < reader_pos]_vars
    /\ <>(pc = "done")

C8_Witness == pc = "done" /\ Len(out) >= 2 /\ buf_size = 1 /\ Len(stream) = MaxLen

\* C9: an I/O error item ends the production: no item follows it.
C9_IoErrorEndsProduction ==
    \A i \in 1..(Len(out) - 1) : out[i].kind # "Io"

\* C10, as claimed: every I/O failure, at construction or during production,
\* is an error item of the produced sequence.
C10_EveryFailureIsAnItem ==
    faults = Cardinality({i \in 1..Len(out) : out[i].kind = "Io"})

\* C10, amended: every I/O failure during production is an error item of the
\* sequence, a completed line that is not valid UTF-8 is an error item and a
\* valid one is not, and a failure at construction is the error with_capacity
\* returns, with no sequence created.
C10_FailuresDelivered ==
    /\ pc # "ctor_err" => faults = Cardinality({i \in 1..Len(out) : out[i].kind = "Io"})
    /\ pc = "ctor_err" => (faults = 1 /\ out = <<>>)
    /\ \A i \in 1..Len(out) :
           /\ out[i].kind = "Ok" => ValidUtf8(out[i].bytes)
           /\ out[i].kind = "NotUtf8" => ~ValidUtf8(out[i].bytes)

C10_Witness ==
    /\ \E i \in 1..Len(out) : out[i].kind = "Io"
    /\ \E i \in 1..Len(out) : out[i].kind = "NotUtf8"
    /\ \E i \in 1..Len(out) : out[i].kind = "Ok"

\* The steps of the scanner agree with next_line as a function.
StepsAgreeWithDrain == Drained /\ faults = 0 => out = Drain(stream, buf_size)

\* The offset at which the line under construction ends.
LineEnd == reader_pos + Len(result)

\* The item a step has just produced, if it has produced one.
Produces == Len(out') = Len(out) + 1

NewItem == out'[Len(out')]

\* C11: the accumulator always holds, last byte first, the bytes of the stream
\* from reader_pos to the end of the line under construction, however the
\* chunks fall; the item produced for a completed line carries exactly the
\* bytes of the stream from the line's start (the stream's start, or the byte
\* after a line feed) to that end, and it is a decoding error if and only if
\* these bytes are not valid UTF-8.
C11_DecodingErrorPerLine ==
    /\ [](pc \in {"ready", "scan"}
            => Reverse(result) = ReadExact(stream, reader_pos, Len(result)))
    /\ [][Produces =>
            LET n == Len(NewItem.bytes)
                seg == ReadExact(stream, LineEnd - n, n)
            IN  /\ NewItem.bytes = seg
                /\ LineEnd - n = 0 \/ At(stream, LineEnd - n - 1) = LF_BYTE
                /\ ValidUtf8(seg) => NewItem.kind = "Ok"
                /\ ~ValidUtf8(seg) => NewItem.kind = "NotUtf8"]_vars

\* A two-byte character read in two chunks is produced as text, after a line
\* that is not valid UTF-8 was produced as a decoding error.
C11_Witness ==
    /\ buf_size = 1
    /\ Len(out) = 2
    /\ out[1].kind = "NotUtf8"
    /\ out[2] = OkItem(<<195, 169>>)

\* The value the construction is claimed to leave in reader_pos.
ClaimedTrimmedPos(S) ==
    LET L == Len(S)
    IN  IF L >= 2 /\ S[L - 1] = CR_BYTE /\ S[L] = LF_BYTE THEN L - 2
        ELSE IF L >= 1 /\ S[L] = LF_BYTE THEN L - 1
        ELSE L

\* C12: after construction reader_pos is L-2 for a stream that ends in \r\n,
\* L-1 for one that ends in \n not preceded by \r, and L for any other ending.
C12_ConstructionTrim ==
    (pc = "ready" /\ out = <<>>) => reader_pos = ClaimedTrimmedPos(stream)

\* The index in buf of its last line feed, -1 when it holds none.
RECURSIVE LastLFBelow(_, _)
LastLFBelow(buf, idx) ==
    IF idx < 0 THEN -1
    ELSE IF At(buf, idx) = LF_BYTE THEN idx
    ELSE LastLFBelow(buf, idx - 1)

LastLF(buf) == LastLFBelow(buf, Len(buf) - 1)

\* A request is about to read a chunk.
ReadsChunk == pc \in {"ready", "scan"} /\ ~AtStart(reader_pos)

\* The offset of the start of the chunk the next read gets, and its bytes.
ChunkStart == reader_pos - Min(buf_size, reader_pos)

ChunkBytes == ReadExact(stream, ChunkStart, Min(buf_size, reader_pos))

\* The line under construction ends at the line feed of a \r\n pair that was
\* not merged: the reader stands on the line feed, the \r before it is unread.
UnmergedPair ==
    /\ pc \in {"ready", "scan"}
    /\ LineEnd >= 1
    /\ LineEnd < Len(stream)
    /\ At(stream, LineEnd) = LF_BYTE
    /\ At(stream, LineEnd - 1) = CR_BYTE

\* The merge rule of C13: reading a chunk whose last line feed is at index idx
\* moves reader_pos to the \r before it when idx >= 2 and that byte is \r, and
\* to the line feed itself otherwise, whatever precedes it.
MergeOnlyFromIndex2 ==
    [][(ReadsChunk /\ LastLF(ChunkBytes) >= 0) =>
          LET idx == LastLF(ChunkBytes)
              merged == idx >= 2 /\ At(stream, ChunkStart + idx - 1) = CR_BYTE
          IN  reader_pos' = ChunkStart + idx - (IF merged THEN 1 ELSE 0)]_vars

\* C13, as claimed: the \r of a pair that was not merged is the first byte of
\* the line produced next.
C13_UnmergedCRLeads ==
    [][(UnmergedPair /\ Produces) =>
          (Len(NewItem.bytes) >= 1 /\ NewItem.bytes[1] = CR_BYTE)]_vars

\* C13, amended: the merge is applied only when the line feed's index in the
\* chunk is >= 2; the \r of a pair that was not merged is the last byte of the
\* line produced next (the line the pair ends).
C13_IndexGuard ==
    /\ MergeOnlyFromIndex2
    /\ [][(UnmergedPair /\ Produces) =>
            (Len(NewItem.bytes) >= 1
                /\ NewItem.bytes[Len(NewItem.bytes)] = CR_BYTE)]_vars

\* A line of a stream whose carriage returns all stand in \r\n pairs was
\* produced with its \r as last byte, after other bytes.
C13_Witness ==
    /\ EveryCRPaired(stream)
    /\ \E i \in 1..Len(out) :
           /\ Len(out[i].bytes) >= 2
           /\ out[i].bytes[Len(out[i].bytes)] = CR_BYTE

\* C14: reader_pos never leaves 0..L, L the stream's length, and every read
\* asks for at least one byte and at most reader_pos bytes (at most L bytes
\* for the construction's read, which starts from reader_pos = L).
C14_ReaderPosInRange ==
    /\ 0 <= reader_pos
    /\ reader_pos <= Len(stream)
    /\ pc = "new" => EndSize(Len(stream)) <= Len(stream)
    /\ ReadsChunk =>
           /\ 1 <= ChunkSize(buf_size, reader_pos)
           /\ ChunkSize(buf_size, reader_pos) <= reader_pos

\* A stream of the greatest length with no terminator was read from reader_pos
\* = L down to 0 in several chunks.
C14_Witness ==
    /\ pc = "scan"
    /\ reader_pos = 0
    /\ Len(result) = MaxLen
    /\ buf_size = 1

\* A request completes a line by finding a line feed in the chunk it reads.
FindsLine == ReadsChunk /\ Produces

\* The offset of the first byte of the line a step has just produced.
NewItemStart == LineEnd - Len(NewItem.bytes)

\* C15, as claimed: when next_line completes a line by finding a line feed,
\* reader_pos is left at the offset of the start of the completed line.
C15_AtStartOfCompletedLine ==
    [][FindsLine => reader_pos' = NewItemStart]_vars

\* C15, amended: the stream is sought forward from the chunk's start and
\* reader_pos raised by the same offset, which leaves both on the terminator
\* before the completed line: on its line feed, one byte before the line's
\* start, or on the \r of a merged \r\n pair, two bytes before it.
C15_AtTerminatorBeforeLine ==
    [][FindsLine =>
          /\ stream_pos' = reader_pos'
          /\ stream_pos' - (stream_pos - ChunkSize(buf_size, reader_pos))
                 = reader_pos' - ChunkStart
          /\ reader_pos' >= ChunkStart
          /\ NewItemStart >= 1
          /\ At(stream, NewItemStart - 1) = LF_BYTE
          /\ \/ reader_pos' = NewItemStart - 1
             \/ /\ reader_pos' = NewItemStart - 2
                /\ At(stream, NewItemStart - 2) = CR_BYTE]_vars

\* A first line was completed at a merged \r\n pair: the reader stands on
\* the \r, after at least one byte of an earlier line.
C15_Witness ==
    /\ pc = "ready"
    /\ Len(out) = 1
    /\ reader_pos >= 1
    /\ reader_pos + 1 < Len(stream)
    /\ At(stream, reader_pos) = CR_BYTE
    /\ At(stream, reader_pos + 1) = LF_BYTE

\* C16: with no I/O error reader_pos is the reader's own offset between any
\* two steps; the construction's read returns the stream's last bytes in
\* forward order; a read of size bytes that finds no line feed lowers both
\* offsets by size and pushes the bytes at [old_pos - size, old_pos) last byte
\* first; a read that finds one lowers both by size and raises both by the
\* same offset < size; each trim raises both by the same 0 or 1.
C16_BookkeepingInStep ==
    /\ [](pc # "new" =>
            /\ stream_pos = reader_pos
            /\ \A i \in 1..Len(end_buf) :
                   end_buf[i] = stream[Len(stream) - Len(end_buf) + i])
    /\ [][(ReadsChunk /\ ~Produces) =>
            LET size == Min(buf_size, reader_pos)
            IN  /\ reader_pos' = reader_pos - size
                /\ stream_pos' = stream_pos - size
                /\ Len(result') = Len(result) + size
                /\ \A k \in 1..size :
                       result'[Len(result) + k] = At(stream, reader_pos - k)]_vars
    /\ [][FindsLine =>
            LET size == Min(buf_size, reader_pos)
            IN  \E offset \in 0..(size - 1) :
                    /\ reader_pos' = reader_pos - size + offset
                    /\ stream_pos' = stream_pos - size + offset]_vars
    /\ [][(pc \in {"trim0", "trim1"}) =>
            (/\ reader_pos' - reader_pos = stream_pos' - stream_pos
             /\ reader_pos' - reader_pos \in {0, 1})]_vars

\* Two chunks of a line of two different bytes were read and pushed, and both
\* offsets stand at the second chunk's start, after the stream's start.
C16_Witness ==
    /\ pc = "scan"
    /\ buf_size = 1
    /\ Len(result) = 2
    /\ result[1] # result[2]
    /\ reader_pos >= 1
    /\ stream_pos = reader_pos

\* The bytes of s that are neither \n nor \r.
ContentBytes(s) == SelectSeq(s, LAMBDA b : b \notin {LF_BYTE, CR_BYTE})

\* The concatenation of the byte strings ls.
RECURSIVE Flatten(_)
Flatten(ls) == IF Len(ls) = 0 THEN <<>> ELSE ls[1] \o Flatten(Tail(ls))

\* C17: byte conservation: in a full drain the bytes of the stream other than
\* \n and \r are, in the stream's order, the bytes other than \n and \r of the
\* produced lines taken in reverse production order; none is lost or doubled.
C17_ByteConservation ==
    Drained =>
        ContentBytes(Flatten(Reverse(Lines(out)))) = ContentBytes(stream)

\* s with every byte that is not ASCII replaced by the letter "A": valid text
\* with the terminators of s at the same offsets.
Sanitize(s) == [i \in 1..Len(s) |-> IF s[i] >= 128 THEN 65 ELSE s[i]]

\* reader_pos after n items were produced from reader_pos = pos on.
RECURSIVE PosAfter(_, _, _, _)
PosAfter(S, bs, pos, n) ==
    IF n = 0 THEN pos
    ELSE PosAfter(S, bs, NextLineFrom(S, bs, pos, <<>>).pos, n - 1)

\* C18: a decoding error affects only its own line: the items produced, the
\* offsets between two requests and the end of the sequence are those of the
\* same scanner on the stream made valid text byte for byte; only the kind of
\* an item and the values of its bytes that are not ASCII differ.
C18_DecodingErrorIsLocal ==
    LET valid == Sanitize(stream)
        ref == Drain(valid, buf_size)
    IN  /\ Len(out) <= Len(ref)
        /\ \A i \in 1..Len(out) :
               /\ out[i].kind \in {"Ok", "NotUtf8"}
               /\ ref[i].kind = "Ok"
               /\ Sanitize(out[i].bytes) = ref[i].bytes
        /\ (pc = "ready" /\ out # <<>>) =>
               /\ reader_pos = PosAfter(valid, buf_size, TrimmedPos(valid), Len(out))
               /\ stream_pos = reader_pos
        /\ Drained => Len(out) = Len(ref)

\* A drain in which a decoding error was followed by a line of text.
C18_Witness ==
    /\ Drained
    /\ \E i \in 1..(Len(out) - 1) :
           /\ out[i].kind = "NotUtf8"
           /\ out[i + 1].kind = "Ok"
           /\ out[i + 1].bytes # <<>>

====
